---- MODULE Spec2Model ----
(***************************************************************************)
(* Workout-progress state machine of routers/history.py: one progress      *)
(* document per (user, workout) pair in the user_workout_progress          *)
(* collection, advanced through the days of a workout plan by              *)
(* complete_set_endpoint and reconciled on read by                         *)
(* check_and_progress_day_if_needed.                                       *)
(*                                                                         *)
(* Day indices are 0-based as in the code; TLA+ sequences are 1-based, so  *)
(* workout_plan[i] of the code is plan[i + 1] here.                        *)
(***************************************************************************)
EXTENDS Integers, Sequences, FiniteSets, TLC

----------------------------------------------------------------------------
(* Bounds of the model *)

\* largest completed_reps / completed_duration_sec a request carries
MaxVal == 1
\* number of update_set_progress calls in one behaviour
MaxUpdates == 1
\* number of requests handled concurrently
NumRequests == 2
\* largest current_day_index a stored record carries from an earlier plan
MaxStoredIndex == 4

----------------------------------------------------------------------------
(* Documents of the collaborating collections *)

\* Python's None for an Optional[int] field, and for a key absent from a dict
None == -1

SetIds == {"A", "B", "C"}

\* the sets collection: target reps / duration_sec of each set document
SetDoc(s) ==
    CASE s = "A" -> [reps |-> 2, duration_sec |-> None]
      [] s = "B" -> [reps |-> None, duration_sec |-> 2]
      [] OTHER   -> [reps |-> None, duration_sec |-> None]

\* workout_plan values a workout document can hold: a list of day plans,
\* each the list exercises_ids of that day (set ids may repeat across days)
Plans ==
    { << <<"A", "B">>, <<"C">> >>,
      << <<"A">>, <<"B">> >>,
      << <<"A">> >>,
      << <<"A">>, <<"B">>, <<"C">>, <<"B", "C">> >>,
      << <<"A", "B", "C">>, <<"C">> >>,
      << <<"A">>, << >>, <<"B">> >>,
      << <<"A", "A">>, <<"B">> >>,
      << >> }

Range(seq) == {seq[k] : k \in 1..Len(seq)}

\* workout_plan[i].get('exercises_ids', [])
DaySets(p, i) == p[i + 1]

----------------------------------------------------------------------------
(* The progress document *)

NoEntry == [present |-> FALSE, completed_reps |-> None,
            completed_duration_sec |-> None, is_complete |-> FALSE]

\* no document under the progress id
NoDoc == [exists |-> FALSE, current_day_index |-> 0, completed_sets |-> {},
          set_progress |-> [s \in SetIds |-> NoEntry]]

\* the document get_or_create_progress inserts
NewDoc == [exists |-> TRUE, current_day_index |-> 0, completed_sets |-> {},
           set_progress |-> [s \in SetIds |-> NoEntry]]

VARIABLES
    plan,       \* workout_plan of the workout document (fixed)
    db,         \* the progress document of the (user, workout) pair
    last,       \* the last request handled and its response
    prev,       \* the progress document as stored before that request
    updates,    \* number of update_set_progress calls so far
    pc,         \* concurrent requests: the store operation each is about to do
    loc,        \* concurrent requests: the local variables of each handler
    users,      \* several pairs: the users collection, by user id
    records,    \* several pairs: user_workout_progress, by progress id
    lastp,      \* several pairs: the last request, its pair and its response
    sets_collection,  \* ids of the set documents in the sets collection (fixed)
    client      \* the workout client: the sets of its view it has yet to do

\* state of the requests against several (user, workout) pairs
pairVars == <<users, records, lastp>>

vars == <<plan, db, last, prev, updates, pc, loc, users, records, lastp,
         sets_collection, client>>

----------------------------------------------------------------------------
(* Helpers shared by the handlers *)

\* variant: an out-of-range index is taken as the last day
EffectiveDayIndex_LastDay(p, idx) == IF idx >= Len(p) THEN Len(p) - 1 ELSE idx

\* `if current_day_index >= len(workout_plan): current_day_index = 0`
EffectiveDayIndex(p, idx) == IF idx >= Len(p) THEN 0 ELSE idx

\* variant: a new document replaces the one found
GetOrCreateProgress_AlwaysNew(d) == NewDoc

\* get_or_create_progress: the document found, or the one inserted
GetOrCreateProgress(d) == IF d.exists THEN d ELSE NewDoc

\* update_one({'_id': progress_id}, {'$set': fields}): no upsert, so nothing
\* is written when no document has the id
UpdateOne(d, new) == IF d.exists THEN new ELSE d

\* variant: only the first day of the plan is searched
SetFound_FirstDay(p, s) == Len(p) >= 1 /\ s \in Range(p[1])

\* "Validate set exists in workout"
SetFound(p, s) == \E k \in 1..Len(p) : s \in Range(p[k])

----------------------------------------------------------------------------
(* get_status: reconciliation and projection *)

\* variant: a day without sets counts as complete
DayAlreadyComplete_Vacuous(set_ids_for_day, completed_sets) ==
    LET InCompleted(s) == s \in completed_sets
        completed_sets_in_day == SelectSeq(set_ids_for_day, InCompleted)
    IN  Len(completed_sets_in_day) = Len(set_ids_for_day)

\* variant: the reconciliation never finds the day complete
DayAlreadyComplete_Never(set_ids_for_day, completed_sets) == FALSE

\* all_sets_complete of check_and_progress_day_if_needed:
\* completed_sets_in_day = [s for s in set_ids_for_day if s in completed_sets]
\* len(completed_sets_in_day) == len(set_ids_for_day)
\*     and len(set_ids_for_day) > 0
DayAlreadyComplete(set_ids_for_day, completed_sets) ==
    LET InCompleted(s) == s \in completed_sets
        completed_sets_in_day == SelectSeq(set_ids_for_day, InCompleted)
    IN  Len(completed_sets_in_day) = Len(set_ids_for_day)
        /\ Len(set_ids_for_day) > 0

\* variant: the reconciliation moves the index and keeps every mark
ProgressDay_KeepMarks(p, current_day_index, completed_sets) ==
    LET next_day_index == current_day_index + 1
    IN  IF next_day_index >= Len(p)
        THEN [next_day_index |-> 0, completed_sets |-> completed_sets]
        ELSE [next_day_index |-> next_day_index,
              completed_sets |-> completed_sets]

\* variant: on rollover the reconciliation clears the day it leaves
ProgressDay_ClearFinishedDay(p, current_day_index, completed_sets) ==
    LET next_day_index == current_day_index + 1
    IN  [next_day_index |-> IF next_day_index >= Len(p) THEN 0
                            ELSE next_day_index,
         completed_sets |->
             completed_sets \ Range(DaySets(p, current_day_index))]

\* the advancement of check_and_progress_day_if_needed (its all_sets_complete
\* branch): next index and the completed_sets it writes
ProgressDay(p, current_day_index, completed_sets) ==
    LET next_day_index == current_day_index + 1
    IN  IF next_day_index >= Len(p)
        THEN [next_day_index |-> 0,
              completed_sets |-> completed_sets \ Range(DaySets(p, 0))]
        ELSE [next_day_index |-> next_day_index,
              completed_sets |->
                  completed_sets \ Range(DaySets(p, current_day_index))]

\* variant: the completed day is detected but nothing is stored
CheckAndProgressDayIfNeeded_Stale(p, d) == d

\* variant: a day without sets is skipped like a completed day
CheckAndProgressDayIfNeeded_SkipEmpty(p, d) ==
    IF Len(p) = 0 THEN d
    ELSE LET current_day_index == EffectiveDayIndex(p, d.current_day_index)
             set_ids_for_day == DaySets(p, current_day_index)
             adv == ProgressDay(p, current_day_index, d.completed_sets)
         IN  IF \/ DayAlreadyComplete(set_ids_for_day, d.completed_sets)
                \/ Len(set_ids_for_day) = 0
             THEN UpdateOne(d, [d EXCEPT
                      !.completed_sets = adv.completed_sets,
                      !.current_day_index = adv.next_day_index])
             ELSE d

\* check_and_progress_day_if_needed on progress_doc d: the stored document
\* afterwards (which is also the refreshed progress_doc it returns)
CheckAndProgressDayIfNeeded(p, d) ==
    IF Len(p) = 0 THEN d
    ELSE LET current_day_index == EffectiveDayIndex(p, d.current_day_index)
             set_ids_for_day == DaySets(p, current_day_index)
             adv == ProgressDay(p, current_day_index, d.completed_sets)
         IN  IF DayAlreadyComplete(set_ids_for_day, d.completed_sets)
             THEN UpdateOne(d, [d EXCEPT
                      !.completed_sets = adv.completed_sets,
                      !.current_day_index = adv.next_day_index])
             ELSE d

\* the day index build_status_response reports (and stores when it resets an
\* out-of-range value)
StatusDayIndex(p, d) == EffectiveDayIndex(p, d.current_day_index)

\* get_set_details(set_id) returns a document (not None)
SetResolves(s) == s \in sets_collection

\* variant: a set id without a set document is listed like the others
StatusSets_AllIds(p, d) ==
    LET set_ids == DaySets(p, StatusDayIndex(p, d))
    IN  [k \in 1..Len(set_ids) |->
            [set_id |-> set_ids[k],
             is_complete |-> set_ids[k] \in d.completed_sets,
             completed_reps |-> d.set_progress[set_ids[k]].completed_reps]]

\* sets_list of build_status_response: one entry per set id of the day whose
\* set document is found; the others are skipped
StatusSets(p, d) ==
    LET set_ids == SelectSeq(DaySets(p, StatusDayIndex(p, d)), SetResolves)
    IN  [k \in 1..Len(set_ids) |->
            [set_id |-> set_ids[k],
             is_complete |-> set_ids[k] \in d.completed_sets,
             completed_reps |-> d.set_progress[set_ids[k]].completed_reps]]

\* the stored document after build_status_response
StoreAfterStatus(p, d) ==
    IF d.current_day_index >= Len(p)
    THEN UpdateOne(d, [d EXCEPT !.current_day_index = 0])
    ELSE d

\* completion_percentage of build_status_response:
\* int((completed_count / total_sets * 100)) if total_sets > 0 else 0.
\* For total_sets up to 40 the float product truncates to the same integer as
\* the exact quotient, so integer division is what the expression computes.
CompletionPercentage(completed_count, total_sets) ==
    IF total_sets > 0 THEN (completed_count * 100) \div total_sets ELSE 0

\* 'progress' of build_status_response
StatusProgress(p, d) ==
    LET sets_list == StatusSets(p, d)
        IsComplete(e) == e.is_complete
        total_sets == Len(sets_list)
        completed_count == Len(SelectSeq(sets_list, IsComplete))
    IN  [completed_sets |-> completed_count,
         total_sets |-> total_sets,
         completion_percentage |->
             CompletionPercentage(completed_count, total_sets)]

NoSets == << >>

\* the progress summary of a response that carries none
NoProgress == [completed_sets |-> 0, total_sets |-> 0,
               completion_percentage |-> 0]

Response(op, set_id, outcome, idx, sets, day_complete, new_day, message) ==
    [op |-> op, set_id |-> set_id, outcome |-> outcome,
     current_day_index |-> idx, sets |-> sets,
     day_complete |-> day_complete, new_day_started |-> new_day,
     message |-> message, progress |-> NoProgress]

\* variant: an empty plan yields a status with no sets instead of an error
StatusResult_EmptyOk(p, d) ==
    LET progress_doc == CheckAndProgressDayIfNeeded(p, GetOrCreateProgress(d))
    IN  IF Len(p) = 0
        THEN [doc |-> progress_doc,
              response |-> Response("get_status", "", "ok", 0, NoSets,
                                    FALSE, FALSE, "")]
        ELSE [doc |-> StoreAfterStatus(p, progress_doc),
              response |->
                  [Response("get_status", "", "ok",
                            StatusDayIndex(p, progress_doc),
                            StatusSets(p, progress_doc), FALSE, FALSE, "")
                   EXCEPT !.progress = StatusProgress(p, progress_doc)]]

\* get_or_create_progress, check_and_progress_day_if_needed and
\* build_status_response in a row, for the plan p of an existing workout and
\* the stored document d: the document stored afterwards and the response
StatusResult(p, d) ==
    LET progress_doc == CheckAndProgressDayIfNeeded(p, GetOrCreateProgress(d))
    IN  IF Len(p) = 0
        THEN [doc |-> progress_doc,
              response |-> Response("get_status", "", "EmptyPlan", 0, NoSets,
                                    FALSE, FALSE, "")]
        ELSE [doc |-> StoreAfterStatus(p, progress_doc),
              response |->
                  [Response("get_status", "", "ok",
                            StatusDayIndex(p, progress_doc),
                            StatusSets(p, progress_doc), FALSE, FALSE, "")
                   EXCEPT !.progress = StatusProgress(p, progress_doc)]]

\* GET /history/{user_id}/{workout_id}/latest (and the active-workout forms,
\* which run the same three calls) for an existing user and workout
GetStatus ==
    /\ db' = StatusResult(plan, db).doc
    /\ last' = StatusResult(plan, db).response
    /\ prev' = db
    /\ UNCHANGED <<plan, updates, pc, loc, pairVars, sets_collection, client>>

----------------------------------------------------------------------------
(* complete_set *)

\* the set_progress entry complete_set_endpoint stamps for a newly completed
\* set: completed_at / is_complete, and the target reps / duration of the set
\* document where the entry has none yet
StampEntry(e, s) ==
    [present |-> TRUE,
     is_complete |-> TRUE,
     completed_reps |->
         IF SetResolves(s) /\ SetDoc(s).reps # None /\ SetDoc(s).reps # 0
            /\ e.completed_reps = None
         THEN SetDoc(s).reps ELSE e.completed_reps,
     completed_duration_sec |->
         IF SetResolves(s) /\ SetDoc(s).duration_sec # None
            /\ SetDoc(s).duration_sec # 0
            /\ e.completed_duration_sec = None
         THEN SetDoc(s).duration_sec ELSE e.completed_duration_sec]

\* variant: completing a set that is already complete takes the mark away
MarkSetComplete_Toggle(d, s) ==
    IF s \in d.completed_sets
    THEN [completed_sets |-> d.completed_sets \ {s},
          set_progress |-> d.set_progress]
    ELSE [completed_sets |-> d.completed_sets \cup {s},
          set_progress |->
              [d.set_progress EXCEPT ![s] = StampEntry(d.set_progress[s], s)]]

\* "Mark set as complete": the completed_sets and set_progress of the first
\* update_one, computed from the progress_doc that was read
MarkSetComplete(d, s) ==
    IF s \in d.completed_sets
    THEN [completed_sets |-> d.completed_sets, set_progress |-> d.set_progress]
    ELSE [completed_sets |-> d.completed_sets \cup {s},
          set_progress |->
              [d.set_progress EXCEPT ![s] = StampEntry(d.set_progress[s], s)]]

\* variant: the set is looked up in the whole plan
SetInCurrentDay_AnyDay(s, set_ids_for_day) == SetFound(plan, s)

\* variant: the set id is not validated
SetInCurrentDay_Unchecked(s, set_ids_for_day) == TRUE

\* "Validate set is in current day"
SetInCurrentDay(s, set_ids_for_day) == s \in Range(set_ids_for_day)

\* all_sets_complete of complete_set_endpoint, "check AFTER updating":
\* completed_sets_in_day = [s for s in set_ids_for_day if s in completed_sets]
\* len(completed_sets_in_day) == len(set_ids_for_day)
\*     and len(set_ids_for_day) > 0
AllSetsComplete(set_ids_for_day, completed_sets) ==
    LET InCompleted(s) == s \in completed_sets
        completed_sets_in_day == SelectSeq(set_ids_for_day, InCompleted)
    IN  Len(completed_sets_in_day) = Len(set_ids_for_day)
        /\ Len(set_ids_for_day) > 0

\* variant: moving to the next day keeps the marks of the finished day
NextDay_KeepDayMarks(p, current_day_index, completed_sets) ==
    LET next_day_index == current_day_index + 1
    IN  IF next_day_index >= Len(p)
        THEN [next_day_index |-> 0,
              completed_sets |-> completed_sets \ Range(DaySets(p, 0)),
              message |-> "rolling_over"]
        ELSE [next_day_index |-> next_day_index,
              completed_sets |-> completed_sets,
              message |-> "next_day"]

\* variant: rolling over keeps the marks of the first day
NextDay_KeepFirstDayMarks(p, current_day_index, completed_sets) ==
    LET next_day_index == current_day_index + 1
    IN  IF next_day_index >= Len(p)
        THEN [next_day_index |-> 0,
              completed_sets |-> completed_sets,
              message |-> "rolling_over"]
        ELSE [next_day_index |-> next_day_index,
              completed_sets |->
                  completed_sets \ Range(DaySets(p, current_day_index)),
              message |-> "next_day"]

\* variant: an advancement drops every mark
NextDay_ClearAll(p, current_day_index, completed_sets) ==
    LET next_day_index == current_day_index + 1
    IN  IF next_day_index >= Len(p)
        THEN [next_day_index |-> 0, completed_sets |-> {},
              message |-> "rolling_over"]
        ELSE [next_day_index |-> next_day_index, completed_sets |-> {},
              message |-> "next_day"]

\* variant: the rollover is announced like a move to the next day
NextDay_SameMessage(p, current_day_index, completed_sets) ==
    LET next_day_index == current_day_index + 1
    IN  IF next_day_index >= Len(p)
        THEN [next_day_index |-> 0,
              completed_sets |-> completed_sets \ Range(DaySets(p, 0)),
              message |-> "next_day"]
        ELSE [next_day_index |-> next_day_index,
              completed_sets |->
                  completed_sets \ Range(DaySets(p, current_day_index)),
              message |-> "next_day"]

\* variant: the day after the last day is not day 0
NextDay_NoRollover(p, current_day_index, completed_sets) ==
    [next_day_index |-> current_day_index + 1,
     completed_sets |->
         completed_sets \ Range(DaySets(p, current_day_index)),
     message |-> "next_day"]

\* the advancement of complete_set_endpoint (its all_sets_complete branch)
NextDay(p, current_day_index, completed_sets) ==
    LET next_day_index == current_day_index + 1
    IN  IF next_day_index >= Len(p)
        THEN [next_day_index |-> 0,
              completed_sets |-> completed_sets \ Range(DaySets(p, 0)),
              message |-> "rolling_over"]
        ELSE [next_day_index |-> next_day_index,
              completed_sets |->
                  completed_sets \ Range(DaySets(p, current_day_index)),
              message |-> "next_day"]

\* complete_set_endpoint for the plan p of an existing workout and the stored
\* document d: the document stored afterwards and the response
CompleteSetResult(p, d, s) ==
    IF Len(p) = 0
    THEN [doc |-> d,
          response |-> Response("complete_set", s, "EmptyPlan", 0, NoSets,
                                FALSE, FALSE, "")]
    ELSE
    LET progress_doc == GetOrCreateProgress(d)
        current_day_index ==
            EffectiveDayIndex(p, progress_doc.current_day_index)
        set_ids_for_day == DaySets(p, current_day_index)
        marked == MarkSetComplete(progress_doc, s)
        first == UpdateOne(progress_doc, [progress_doc EXCEPT
                     !.completed_sets = marked.completed_sets,
                     !.set_progress = marked.set_progress])
        all_sets_complete ==
            AllSetsComplete(set_ids_for_day, marked.completed_sets)
        adv == NextDay(p, current_day_index, marked.completed_sets)
    IN  IF ~SetInCurrentDay(s, set_ids_for_day)
        THEN [doc |-> progress_doc,
              response |-> Response("complete_set", s, "SetNotInCurrentDay",
                                    0, NoSets, FALSE, FALSE, "")]
        ELSE IF all_sets_complete
        THEN [doc |-> UpdateOne(first, [first EXCEPT
                          !.completed_sets = adv.completed_sets,
                          !.current_day_index = adv.next_day_index]),
              response |-> Response("complete_set", s, "ok",
                                    adv.next_day_index, NoSets, TRUE, TRUE,
                                    adv.message)]
        ELSE [doc |-> first,
              response |-> Response("complete_set", s, "ok",
                                    current_day_index, NoSets, FALSE, FALSE,
                                    IF s \in progress_doc.completed_sets
                                    THEN "already_complete" ELSE "marked")]

\* POST /history/{user_id}/complete for an existing workout
CompleteSet(s) ==
    /\ db' = CompleteSetResult(plan, db, s).doc
    /\ last' = CompleteSetResult(plan, db, s).response
    /\ prev' = db
    /\ UNCHANGED <<plan, updates, pc, loc, pairVars, sets_collection, client>>

----------------------------------------------------------------------------
(* update_set_progress *)

\* values of the Optional[int] request fields
ReqValues == {None} \cup (0..MaxVal)

\* variant: reported reps mark the entry complete
UpdateEntry_MarksComplete(e, completed_reps, completed_duration_sec) ==
    [present |-> TRUE,
     is_complete |-> e.is_complete \/ completed_reps # None,
     completed_reps |->
         IF completed_reps # None THEN completed_reps ELSE e.completed_reps,
     completed_duration_sec |->
         IF completed_duration_sec # None THEN completed_duration_sec
         ELSE e.completed_duration_sec]

\* the entry update_set_progress_endpoint writes for the set
UpdateEntry(e, completed_reps, completed_duration_sec) ==
    [present |-> TRUE,
     is_complete |-> e.is_complete,
     completed_reps |->
         IF completed_reps # None THEN completed_reps ELSE e.completed_reps,
     completed_duration_sec |->
         IF completed_duration_sec # None THEN completed_duration_sec
         ELSE e.completed_duration_sec]

\* update_set_progress_endpoint for the plan p of an existing workout and the
\* stored document d: the document stored afterwards and the response
UpdateSetProgressResult(p, d, s, completed_reps, completed_duration_sec) ==
    IF ~SetFound(p, s)
    THEN [doc |-> d,
          response |-> Response("update_set_progress", s, "SetNotFound", 0,
                                NoSets, FALSE, FALSE, "")]
    ELSE
    LET progress_doc == GetOrCreateProgress(d)
        set_progress ==
            [progress_doc.set_progress EXCEPT ![s] =
                UpdateEntry(@, completed_reps, completed_duration_sec)]
    IN  [doc |-> UpdateOne(progress_doc,
                     [progress_doc EXCEPT !.set_progress = set_progress]),
         response |-> Response("update_set_progress", s, "ok", 0, NoSets,
                               FALSE, FALSE, "")]

\* POST /history/{user_id}/update
UpdateSetProgress(s, completed_reps, completed_duration_sec) ==
    /\ updates < MaxUpdates
    /\ updates' = updates + 1
    /\ db' = UpdateSetProgressResult(plan, db, s, completed_reps,
                                     completed_duration_sec).doc
    /\ last' = UpdateSetProgressResult(plan, db, s, completed_reps,
                                       completed_duration_sec).response
    /\ prev' = db
    /\ UNCHANGED <<plan, pc, loc, pairVars, sets_collection, client>>

----------------------------------------------------------------------------
(* Sequential requests against one (user, workout) pair *)

NoRequest == Response("none", "", "ok", 0, NoSets, FALSE, FALSE, "")

Requests == 1..NumRequests

\* local variables of a handler that has not started
NoLocals == [set_id |-> "", progress_doc |-> NoDoc, outcome |-> "",
             new_day_started |-> FALSE, current_day_index |-> 0,
             completed_reps |-> None, completed_duration_sec |-> None]

\* ids are strings; a string is the sequence of its characters.
\* user ids are chosen by the client when the user is created
UserIdStrings == { <<"u">>, <<"u", "_", "x">> }

\* the workout ids a request can carry
WorkoutIdStrings == { <<"w">>, <<"x", "_", "w">>, <<"v">> }

\* the workouts collection: one stored workout (ids are str(ObjectId()), hex
\* digits only); "v" is a workout that was deleted
WorkoutDocs == { <<"w">> }

\* workout_plan of the stored workout
PairPlan == << <<"A">>, <<"B">> >>

\* a user that is not in the users collection
NoUserDoc == [found |-> FALSE, associated_workout_ids |-> <<>>]

\* a document of the users collection, as far as history.py reads it
UserDocs ==
    { NoUserDoc,
      [found |-> TRUE, associated_workout_ids |-> <<>>],
      [found |-> TRUE, associated_workout_ids |-> << <<"w">> >>],
      [found |-> TRUE, associated_workout_ids |-> << <<"v">> >>] }

\* progress_id = f"{user_id}_{workout_id}"
ProgressId(user_id, workout_id) == user_id \o <<"_">> \o workout_id

ProgressIds ==
    { ProgressId(u, w) : u \in UserIdStrings, w \in WorkoutIdStrings }

NoPairRequest ==
    [form |-> "", user_id |-> <<>>, workout_id |-> <<>>, response |-> NoRequest]

\* the collections before any request against several pairs
NoPairs ==
    /\ users = [u \in UserIdStrings |-> NoUserDoc]
    /\ records = [id \in ProgressIds |-> NoDoc]
    /\ lastp = NoPairRequest

\* a client that has no view yet
NoClient == [todo |-> << >>, updated |-> FALSE]

\* every set id of the plans has its set document, and no client is running
AllSetsStored ==
    /\ sets_collection = SetIds
    /\ client = NoClient

Init ==
    /\ NoPairs
    /\ AllSetsStored
    /\ plan \in Plans
    /\ db = NoDoc
    /\ last = NoRequest
    /\ prev = NoDoc
    /\ updates = 0
    /\ pc = [r \in Requests |-> "idle"]
    /\ loc = [r \in Requests |-> NoLocals]

Next ==
    \/ GetStatus
    \/ \E s \in SetIds : CompleteSet(s)
    \/ \E s \in SetIds, r \in ReqValues, t \in ReqValues :
           UpdateSetProgress(s, r, t)

Spec == Init /\ [][Next]_vars

----------------------------------------------------------------------------
(* Sequential requests where a write to the store can fail: the two         *)
(* update_one calls of complete_set_endpoint are separate operations, and   *)
(* an exception of the second one is answered with status 500 after the     *)
(* first one was stored.                                                    *)

\* complete_set_endpoint whose first update_one is stored and whose second
\* update_one raises (`except Exception` turns it into a 500 response)
CompleteSetInterrupted(s) ==
    LET progress_doc == GetOrCreateProgress(db)
        current_day_index ==
            EffectiveDayIndex(plan, progress_doc.current_day_index)
        set_ids_for_day == DaySets(plan, current_day_index)
        marked == MarkSetComplete(progress_doc, s)
    IN  /\ Len(plan) > 0
        /\ SetInCurrentDay(s, set_ids_for_day)
        /\ AllSetsComplete(set_ids_for_day, marked.completed_sets)
        /\ db' = UpdateOne(progress_doc, [progress_doc EXCEPT
                      !.completed_sets = marked.completed_sets,
                      !.set_progress = marked.set_progress])
        /\ last' = Response("complete_set", s, "error_500", 0, NoSets,
                            FALSE, FALSE, "")
        /\ prev' = db
        /\ UNCHANGED <<plan, updates, pc, loc, pairVars, sets_collection,
                       client>>

NextRetry ==
    \/ Next
    \/ \E s \in SetIds : CompleteSetInterrupted(s)

SpecRetry == Init /\ [][NextRetry]_vars

----------------------------------------------------------------------------
(* Sequential requests while a set document is missing: a day plan keeps    *)
(* the id of a set that is no longer in the sets collection.                *)

\* the two-day plans
DanglingPlans == { p \in Plans : Len(p) = 2 }

InitDangling ==
    /\ NoPairs
    /\ client = NoClient
    /\ sets_collection \in { SetIds \ {s} : s \in SetIds }
    /\ plan \in DanglingPlans
    /\ db = NoDoc
    /\ last = NoRequest
    /\ prev = NoDoc
    /\ updates = 0
    /\ pc = [r \in Requests |-> "idle"]
    /\ loc = [r \in Requests |-> NoLocals]

SpecDangling == InitDangling /\ [][Next]_vars

----------------------------------------------------------------------------
(* The workout client of scripts/test_history_workflow.py: complete_day      *)
(* fetches the status view, completes the sets the view lists as incomplete  *)
(* one after the other, and returns as soon as a response reports a new day; *)
(* main calls complete_day again and again.                                  *)

\* the plans in which every day has a set, and three more whose days share
\* set ids with other days
ClientPlans ==
    { p \in Plans : Len(p) >= 1 /\ \A k \in 1..Len(p) : Len(p[k]) >= 1 }
    \cup { << <<"A", "B">>, <<"B", "C">>, <<"C", "A">> >>,
           << <<"B">>, <<"A", "C">>, <<"B">> >>,
           << <<"C">>, <<"B">>, <<"A">>, <<"A", "B", "C">> >> }

\* the set ids of the view entries with is_complete false, in view order
IncompleteIds(sets) ==
    LET NotComplete(e) == ~e.is_complete
        pending == SelectSeq(sets, NotComplete)
    IN  [k \in 1..Len(pending) |-> pending[k].set_id]

\* target_reps of a view entry: the reps of the set document
TargetReps(s) == IF SetResolves(s) THEN SetDoc(s).reps ELSE None

\* `if target_reps:`
HasTargetReps(s) == TargetReps(s) # None /\ TargetReps(s) # 0

\* partial_reps = int(target_reps * 0.7)
PartialReps(s) == (TargetReps(s) * 7) \div 10

\* complete_day: get_latest_history, then the loop over history['sets']
\* that skips the complete ones
ClientPoll ==
    /\ client.todo = << >>
    /\ db' = StatusResult(plan, db).doc
    /\ last' = StatusResult(plan, db).response
    /\ prev' = db
    /\ client' = [todo |-> IncompleteIds(StatusResult(plan, db).response.sets),
                  updated |-> FALSE]
    /\ UNCHANGED <<plan, updates, pc, loc, pairVars, sets_collection>>

\* complete_day: for a set with target reps, update_set_progress with the
\* partial reps before the set is completed
ClientUpdate ==
    /\ client.todo # << >>
    /\ ~client.updated
    /\ HasTargetReps(Head(client.todo))
    /\ LET result ==
               UpdateSetProgressResult(plan, db, Head(client.todo),
                                       PartialReps(Head(client.todo)), None)
       IN  /\ db' = result.doc
           /\ last' = result.response
    /\ client' = [client EXCEPT !.updated = TRUE]
    /\ prev' = db
    /\ UNCHANGED <<plan, updates, pc, loc, pairVars, sets_collection>>

\* complete_day: complete_set for the set of the loop; the loop ends when the
\* response has new_day_started (or the request fails)
ClientComplete ==
    /\ client.todo # << >>
    /\ client.updated \/ ~HasTargetReps(Head(client.todo))
    /\ LET result == CompleteSetResult(plan, db, Head(client.todo))
       IN  /\ db' = result.doc
           /\ last' = result.response
           /\ client' = [todo |->
                             IF result.response.new_day_started
                                \/ result.response.outcome # "ok"
                             THEN << >> ELSE Tail(client.todo),
                         updated |-> FALSE]
    /\ prev' = db
    /\ UNCHANGED <<plan, updates, pc, loc, pairVars, sets_collection>>

NextClient == ClientPoll \/ ClientUpdate \/ ClientComplete

InitClient ==
    /\ NoPairs
    /\ AllSetsStored
    /\ plan \in ClientPlans
    /\ db = NoDoc
    /\ last = NoRequest
    /\ prev = NoDoc
    /\ updates = 0
    /\ pc = [r \in Requests |-> "idle"]
    /\ loc = [r \in Requests |-> NoLocals]

\* the client keeps calling: main's loop runs complete_day until the cycles
\* it waits for have happened
SpecClient == InitClient /\ [][NextClient]_vars /\ WF_vars(NextClient)

----------------------------------------------------------------------------
(* Sequential requests against a record whose current_day_index does not    *)
(* fit the plan: the document was written for a workout_plan of more days   *)
(* than the workout document holds now (history.py guards every read of the *)
(* index with `current_day_index >= len(workout_plan)`).                    *)

\* the documents with an index past the last day of plan p, holding no mark
\* or the marks of one day of the plan
StaleDocs(p) ==
    { [NewDoc EXCEPT !.current_day_index = k, !.completed_sets = c] :
          k \in Len(p)..MaxStoredIndex,
          c \in {{}} \cup {Range(p[j]) : j \in 1..Len(p)} }

InitStale ==
    /\ NoPairs
    /\ AllSetsStored
    /\ plan \in Plans
    /\ db \in StaleDocs(plan)
    /\ last = NoRequest
    /\ prev = NoDoc
    /\ updates = 0
    /\ pc = [r \in Requests |-> "idle"]
    /\ loc = [r \in Requests |-> NoLocals]

SpecStale == InitStale /\ [][Next]_vars

----------------------------------------------------------------------------
(* Concurrent complete_set requests against one (user, workout) pair: each   *)
(* handler is a sequence of store operations on user_workout_progress, and   *)
(* nothing in the handlers orders the operations of different requests.      *)

Finish(r, outcome) ==
    /\ pc' = [pc EXCEPT ![r] = "done"]
    /\ loc' = [loc EXCEPT ![r].outcome = outcome]

\* the handler after get_or_create_progress returned progress_doc: the
\* current-day validation, then on to the first update_one
CompleteValidate(r, progress_doc) ==
    LET current_day_index ==
            EffectiveDayIndex(plan, progress_doc.current_day_index)
    IN  IF ~SetInCurrentDay(loc[r].set_id, DaySets(plan, current_day_index))
        THEN /\ pc' = [pc EXCEPT ![r] = "done"]
             /\ loc' = [loc EXCEPT ![r].outcome = "SetNotInCurrentDay",
                                   ![r].progress_doc = progress_doc]
        ELSE /\ pc' = [pc EXCEPT ![r] = "first_update"]
             /\ loc' = [loc EXCEPT ![r].progress_doc = progress_doc,
                                   ![r].current_day_index = current_day_index]

\* request received: the workout document is read and its plan checked
CompleteStart(r, s) ==
    /\ pc[r] = "idle"
    /\ IF Len(plan) = 0
       THEN /\ pc' = [pc EXCEPT ![r] = "done"]
            /\ loc' = [loc EXCEPT ![r].set_id = s, ![r].outcome = "EmptyPlan"]
       ELSE /\ pc' = [pc EXCEPT ![r] = "find_one"]
            /\ loc' = [loc EXCEPT ![r].set_id = s]
    /\ UNCHANGED <<plan, db, last, prev, updates, pairVars, sets_collection, client>>

\* get_or_create_progress: progress_collection.find_one
CompleteFindOne(r) ==
    /\ pc[r] = "find_one"
    /\ IF db.exists
       THEN CompleteValidate(r, db)
       ELSE /\ pc' = [pc EXCEPT ![r] = "insert_one"]
            /\ UNCHANGED loc
    /\ UNCHANGED <<plan, db, last, prev, updates, pairVars, sets_collection, client>>

\* get_or_create_progress: progress_collection.insert_one, which raises
\* DuplicateKeyError when a document with the _id exists by now
CompleteInsertOne(r) ==
    /\ pc[r] = "insert_one"
    /\ IF db.exists
       THEN /\ Finish(r, "error_500")
            /\ UNCHANGED db
       ELSE /\ db' = NewDoc
            /\ CompleteValidate(r, NewDoc)
    /\ UNCHANGED <<plan, last, prev, updates, pairVars, sets_collection, client>>

\* "Update database first to save the set completion", then the
\* all_sets_complete check on the handler's own completed_sets
CompleteFirstUpdate(r) ==
    /\ pc[r] = "first_update"
    /\ LET marked == MarkSetComplete(loc[r].progress_doc, loc[r].set_id)
           set_ids_for_day == DaySets(plan, loc[r].current_day_index)
       IN  /\ db' = UpdateOne(db, [db EXCEPT
                        !.completed_sets = marked.completed_sets,
                        !.set_progress = marked.set_progress])
           /\ IF AllSetsComplete(set_ids_for_day, marked.completed_sets)
              THEN /\ pc' = [pc EXCEPT ![r] = "second_update"]
                   /\ loc' = [loc EXCEPT
                          ![r].progress_doc.completed_sets =
                              marked.completed_sets]
              ELSE Finish(r, "ok")
    /\ UNCHANGED <<plan, last, prev, updates, pairVars, sets_collection, client>>

\* "Update database again with new day index and cleared completed sets"
CompleteSecondUpdate(r) ==
    /\ pc[r] = "second_update"
    /\ LET adv == NextDay(plan, loc[r].current_day_index,
                          loc[r].progress_doc.completed_sets)
       IN  /\ db' = UpdateOne(db, [db EXCEPT
                        !.completed_sets = adv.completed_sets,
                        !.current_day_index = adv.next_day_index])
           /\ pc' = [pc EXCEPT ![r] = "done"]
           /\ loc' = [loc EXCEPT ![r].outcome = "ok",
                                 ![r].new_day_started = TRUE,
                                 ![r].current_day_index = adv.next_day_index]
    /\ UNCHANGED <<plan, last, prev, updates, pairVars, sets_collection, client>>

NextConc ==
    \E r \in Requests :
        \/ \E s \in SetIds : CompleteStart(r, s)
        \/ CompleteFindOne(r)
        \/ CompleteInsertOne(r)
        \/ CompleteFirstUpdate(r)
        \/ CompleteSecondUpdate(r)

\* the record is absent or was created by an earlier request
InitConc ==
    /\ NoPairs
    /\ AllSetsStored
    /\ plan \in Plans
    /\ db \in {NoDoc, NewDoc}
    /\ last = NoRequest
    /\ prev = NoDoc
    /\ updates = 0
    /\ pc = [r \in Requests |-> "idle"]
    /\ loc = [r \in Requests |-> NoLocals]

SpecConc == InitConc /\ [][NextConc]_vars

----------------------------------------------------------------------------
(* A get_status request racing a complete_set request on one record, after  *)
(* any number of requests served one at a time. The get_status handler is   *)
(* the sequence of store operations of get_or_create_progress,              *)
(* check_and_progress_day_if_needed and build_status_response.              *)

StatusLabels == {"gs_find_one", "gs_insert_one", "gs_update", "gs_refresh",
                 "gs_build", "gs_done"}

\* no request is being handled
AllIdle == \A r \in Requests : pc[r] = "idle"

\* check_and_progress_day_if_needed on the progress_doc that
\* get_or_create_progress returned, up to its update_one
StatusCheck(r, progress_doc) ==
    IF Len(plan) = 0
    THEN /\ pc' = [pc EXCEPT ![r] = "gs_done"]
         /\ loc' = [loc EXCEPT ![r].outcome = "EmptyPlan",
                               ![r].progress_doc = progress_doc]
    ELSE LET current_day_index ==
                 EffectiveDayIndex(plan, progress_doc.current_day_index)
         IN  /\ pc' = [pc EXCEPT ![r] =
                    IF DayAlreadyComplete(DaySets(plan, current_day_index),
                                          progress_doc.completed_sets)
                    THEN "gs_update" ELSE "gs_build"]
             /\ loc' = [loc EXCEPT ![r].progress_doc = progress_doc,
                                   ![r].current_day_index = current_day_index]

\* both requests are received: the status request r starts with
\* get_or_create_progress, the completion request q with its plan check
RaceStart(r, q, s) ==
    /\ AllIdle
    /\ r # q
    /\ pc' = [pc EXCEPT ![r] = "gs_find_one",
                        ![q] = IF Len(plan) = 0 THEN "done" ELSE "find_one"]
    /\ loc' = [loc EXCEPT ![q].set_id = s,
                          ![q].outcome = IF Len(plan) = 0 THEN "EmptyPlan"
                                         ELSE ""]
    /\ prev' = db
    /\ last' = NoRequest
    /\ UNCHANGED <<plan, db, updates, pairVars, sets_collection, client>>

\* get_or_create_progress: progress_collection.find_one
StatusFindOne(r) ==
    /\ pc[r] = "gs_find_one"
    /\ IF db.exists
       THEN StatusCheck(r, db)
       ELSE /\ pc' = [pc EXCEPT ![r] = "gs_insert_one"]
            /\ UNCHANGED loc
    /\ UNCHANGED <<plan, db, last, prev, updates, pairVars, sets_collection,
                   client>>

\* get_or_create_progress: progress_collection.insert_one, which raises
\* DuplicateKeyError when a document with the _id exists by now
StatusInsertOne(r) ==
    /\ pc[r] = "gs_insert_one"
    /\ IF db.exists
       THEN /\ pc' = [pc EXCEPT ![r] = "gs_done"]
            /\ loc' = [loc EXCEPT ![r].outcome = "error_500"]
            /\ UNCHANGED db
       ELSE /\ db' = NewDoc
            /\ StatusCheck(r, NewDoc)
    /\ UNCHANGED <<plan, last, prev, updates, pairVars, sets_collection,
                   client>>

\* check_and_progress_day_if_needed: the update_one of the advancement,
\* computed from the handler's progress_doc
StatusUpdate(r) ==
    /\ pc[r] = "gs_update"
    /\ LET adv == ProgressDay(plan, loc[r].current_day_index,
                              loc[r].progress_doc.completed_sets)
       IN  db' = UpdateOne(db, [db EXCEPT
                     !.completed_sets = adv.completed_sets,
                     !.current_day_index = adv.next_day_index])
    /\ pc' = [pc EXCEPT ![r] = "gs_refresh"]
    /\ loc' = [loc EXCEPT ![r].new_day_started = TRUE]
    /\ UNCHANGED <<plan, last, prev, updates, pairVars, sets_collection,
                   client>>

\* check_and_progress_day_if_needed: "Refresh progress doc" by find_one
StatusRefresh(r) ==
    /\ pc[r] = "gs_refresh"
    /\ pc' = [pc EXCEPT ![r] = "gs_build"]
    /\ loc' = [loc EXCEPT ![r].progress_doc = db]
    /\ UNCHANGED <<plan, db, last, prev, updates, pairVars, sets_collection,
                   client>>

\* build_status_response on the handler's progress_doc: the update_one that
\* resets an out-of-range index, and the view
StatusBuild(r) ==
    /\ pc[r] = "gs_build"
    /\ db' = IF loc[r].progress_doc.current_day_index >= Len(plan)
             THEN UpdateOne(db, [db EXCEPT !.current_day_index = 0])
             ELSE db
    /\ pc' = [pc EXCEPT ![r] = "gs_done"]
    /\ loc' = [loc EXCEPT
           ![r].outcome = "ok",
           ![r].current_day_index =
               EffectiveDayIndex(plan, loc[r].progress_doc.current_day_index)]
    /\ UNCHANGED <<plan, last, prev, updates, pairVars, sets_collection,
                   client>>

NextRace ==
    \/ AllIdle /\ GetStatus
    \/ \E s \in SetIds : AllIdle /\ CompleteSet(s)
    \/ \E r \in Requests, q \in Requests, s \in SetIds : RaceStart(r, q, s)
    \/ \E r \in Requests :
           \/ StatusFindOne(r)
           \/ StatusInsertOne(r)
           \/ StatusUpdate(r)
           \/ StatusRefresh(r)
           \/ StatusBuild(r)
           \/ CompleteFindOne(r)
           \/ CompleteInsertOne(r)
           \/ CompleteFirstUpdate(r)
           \/ CompleteSecondUpdate(r)

SpecRace == Init /\ [][NextRace]_vars

----------------------------------------------------------------------------
(* Two requests, each of any of the three operations, handled concurrently   *)
(* against one record, after any number of get_status and complete_set       *)
(* requests served one at a time. Each handler is the sequence of its store  *)
(* operations; the update_set_progress handler is get_or_create_progress     *)
(* followed by one update_one of the whole set_progress map.                 *)

\* the requests a client can send for the pair
Calls ==
    {[op |-> "get_status", set_id |-> "", completed_reps |-> None,
      completed_duration_sec |-> None]}
    \cup {[op |-> "complete_set", set_id |-> s, completed_reps |-> None,
           completed_duration_sec |-> None] : s \in SetIds}
    \cup {[op |-> "update_set_progress", set_id |-> s, completed_reps |-> c,
           completed_duration_sec |-> t] :
              s \in SetIds, c \in ReqValues, t \in ReqValues}

\* the checks a handler makes on the workout document before
\* get_or_create_progress, and the answer when one fails
Rejected(call) ==
    CASE call.op = "complete_set" ->
             IF Len(plan) = 0 THEN "EmptyPlan" ELSE ""
      [] call.op = "update_set_progress" ->
             IF SetFound(plan, call.set_id) THEN "" ELSE "SetNotFound"
      [] OTHER -> ""

\* where a handler stands once the request is received and checked
FirstStep(call) ==
    CASE call.op = "complete_set" ->
             IF Rejected(call) = "" THEN "find_one" ELSE "done"
      [] call.op = "update_set_progress" ->
             IF Rejected(call) = "" THEN "up_find_one" ELSE "up_done"
      [] OTHER -> "gs_find_one"

\* the local variables of a handler that received the request
Received(call) ==
    [NoLocals EXCEPT !.set_id = call.set_id,
                     !.completed_reps = call.completed_reps,
                     !.completed_duration_sec = call.completed_duration_sec,
                     !.outcome = Rejected(call)]

\* number of update_set_progress calls among two requests
NumUpdates(a, b) ==
    (IF a.op = "update_set_progress" THEN 1 ELSE 0)
        + (IF b.op = "update_set_progress" THEN 1 ELSE 0)

\* two requests are received and handled from now on
MixedStart(r, q, a, b) ==
    /\ r < q
    /\ updates + NumUpdates(a, b) <= MaxUpdates
    /\ updates' = updates + NumUpdates(a, b)
    /\ pc' = [pc EXCEPT ![r] = FirstStep(a), ![q] = FirstStep(b)]
    /\ loc' = [loc EXCEPT ![r] = Received(a), ![q] = Received(b)]
    /\ prev' = db
    /\ UNCHANGED <<plan, db, last, pairVars, sets_collection, client>>

\* a get_status or a complete_set handled while no other request is
ServedAlone ==
    /\ \/ db' = StatusResult(plan, db).doc
       \/ \E s \in SetIds : db' = CompleteSetResult(plan, db, s).doc
    /\ UNCHANGED <<plan, last, prev, updates, pc, loc, pairVars,
                   sets_collection, client>>

\* get_or_create_progress: progress_collection.find_one
UpdateFindOne(r) ==
    /\ pc[r] = "up_find_one"
    /\ IF db.exists
       THEN /\ pc' = [pc EXCEPT ![r] = "up_write"]
            /\ loc' = [loc EXCEPT ![r].progress_doc = db]
       ELSE /\ pc' = [pc EXCEPT ![r] = "up_insert_one"]
            /\ UNCHANGED loc
    /\ UNCHANGED <<plan, db, last, prev, updates, pairVars, sets_collection,
                   client>>

\* get_or_create_progress: progress_collection.insert_one, which raises
\* DuplicateKeyError when a document with the _id exists by now
UpdateInsertOne(r) ==
    /\ pc[r] = "up_insert_one"
    /\ IF db.exists
       THEN /\ pc' = [pc EXCEPT ![r] = "up_done"]
            /\ loc' = [loc EXCEPT ![r].outcome = "error_500"]
            /\ UNCHANGED db
       ELSE /\ db' = NewDoc
            /\ pc' = [pc EXCEPT ![r] = "up_write"]
            /\ loc' = [loc EXCEPT ![r].progress_doc = NewDoc]
    /\ UNCHANGED <<plan, last, prev, updates, pairVars, sets_collection,
                   client>>

\* "Update database": the set_progress of the handler's progress_doc with the
\* entry of the set updated, written as a whole
UpdateWrite(r) ==
    /\ pc[r] = "up_write"
    /\ LET set_progress ==
               [loc[r].progress_doc.set_progress EXCEPT ![loc[r].set_id] =
                   UpdateEntry(@, loc[r].completed_reps,
                               loc[r].completed_duration_sec)]
       IN  db' = UpdateOne(db, [db EXCEPT !.set_progress = set_progress])
    /\ pc' = [pc EXCEPT ![r] = "up_done"]
    /\ loc' = [loc EXCEPT ![r].outcome = "ok"]
    /\ UNCHANGED <<plan, last, prev, updates, pairVars, sets_collection,
                   client>>

NextMixed ==
    \/ AllIdle /\ ServedAlone
    \/ AllIdle /\ \E r \in Requests, q \in Requests, a \in Calls, b \in Calls :
                      MixedStart(r, q, a, b)
    \/ \E r \in Requests :
           \/ StatusFindOne(r)
           \/ StatusInsertOne(r)
           \/ StatusUpdate(r)
           \/ StatusRefresh(r)
           \/ StatusBuild(r)
           \/ CompleteFindOne(r)
           \/ CompleteInsertOne(r)
           \/ CompleteFirstUpdate(r)
           \/ CompleteSecondUpdate(r)
           \/ UpdateFindOne(r)
           \/ UpdateInsertOne(r)
           \/ UpdateWrite(r)

SpecMixed == Init /\ [][NextMixed]_vars

----------------------------------------------------------------------------
(* Requests against several (user, workout) pairs: the path and body of a   *)
(* request carry the user id and the workout id as strings, and the record  *)
(* of a pair is the document whose _id is the progress id of the two.       *)

\* HTTPException(status_code=404) of a lookup
NotFound(op, s) ==
    Response(op, s, "NotFound", 0, NoSets, FALSE, FALSE, "")

\* get_or_create_progress(user_id, workout_id), then
\* check_and_progress_day_if_needed, whose get_workout_structure raises 404
\* for a missing workout, then build_status_response
StatusFor(form, user_id, workout_id) ==
    LET id == ProgressId(user_id, workout_id)
        result == StatusResult(PairPlan, records[id])
    IN  IF workout_id \in WorkoutDocs
        THEN /\ records' = [records EXCEPT ![id] = result.doc]
             /\ lastp' = [form |-> form, user_id |-> user_id,
                          workout_id |-> workout_id,
                          response |-> result.response]
        ELSE /\ records' =
                    [records EXCEPT ![id] = GetOrCreateProgress(records[id])]
             /\ lastp' = [form |-> form, user_id |-> user_id,
                          workout_id |-> workout_id,
                          response |-> NotFound("get_status", "")]

\* GET /history/{user_id}/status and GET /history/{user_id}/latest:
\* get_active_workout_id, then the status of the first associated workout
GetStatusActive(user_id) ==
    /\ IF \/ ~users[user_id].found
          \/ users[user_id].associated_workout_ids = <<>>
       THEN /\ records' = records
            /\ lastp' = [form |-> "active", user_id |-> user_id,
                         workout_id |-> <<>>,
                         response |-> NotFound("get_status", "")]
       ELSE StatusFor("active", user_id,
                      users[user_id].associated_workout_ids[1])
    /\ UNCHANGED <<users, plan, db, last, prev, updates, pc, loc,
                   sets_collection, client>>

\* GET /history/{user_id}/{workout_id}/latest
GetStatusExplicit(user_id, workout_id) ==
    /\ StatusFor("explicit", user_id, workout_id)
    /\ UNCHANGED <<users, plan, db, last, prev, updates, pc, loc,
                   sets_collection, client>>

\* POST /history/{user_id}/complete with workout_id and set_id in the body
CompleteSetFor(user_id, workout_id, s) ==
    LET id == ProgressId(user_id, workout_id)
        result == CompleteSetResult(PairPlan, records[id], s)
    IN  /\ IF workout_id \in WorkoutDocs
           THEN /\ records' = [records EXCEPT ![id] = result.doc]
                /\ lastp' = [form |-> "body", user_id |-> user_id,
                             workout_id |-> workout_id,
                             response |-> result.response]
           ELSE /\ records' = records
                /\ lastp' = [form |-> "body", user_id |-> user_id,
                             workout_id |-> workout_id,
                             response |-> NotFound("complete_set", s)]
        /\ UNCHANGED <<users, plan, db, last, prev, updates, pc, loc,
                   sets_collection, client>>

NextPairs ==
    \/ \E u \in UserIdStrings : GetStatusActive(u)
    \/ \E u \in UserIdStrings, w \in WorkoutIdStrings :
           GetStatusExplicit(u, w)
    \/ \E u \in UserIdStrings, w \in WorkoutIdStrings, s \in SetIds :
           CompleteSetFor(u, w, s)

InitPairs ==
    /\ users \in [UserIdStrings -> UserDocs]
    /\ records = [id \in ProgressIds |-> NoDoc]
    /\ lastp = NoPairRequest
    /\ AllSetsStored
    /\ plan = PairPlan
    /\ db = NoDoc
    /\ last = NoRequest
    /\ prev = NoDoc
    /\ updates = 0
    /\ pc = [r \in Requests |-> "idle"]
    /\ loc = [r \in Requests |-> NoLocals]

SpecPairs == InitPairs /\ [][NextPairs]_vars

----------------------------------------------------------------------------
(* Properties of sequential requests *)

\* number of days of the plan
N == Len(plan)

\* set ids of day i of the plan
DayIds(i) == Range(plan[i + 1])

\* the day a handler works on when the stored index is idx
DayOf(idx) == IF idx >= N THEN 0 ELSE idx

CompletedOk == last.op = "complete_set" /\ last.outcome = "ok"

\* C1: full-day advancement. A successful complete_set on a day i < n-1 that
\* still has outstanding sets advances to i+1 and clears every id of day i
\* when it completes the last outstanding set, and otherwise only adds the id
\* and leaves the index alone; so completing each id of an unmarked day once,
\* in any order, ends at i+1 with no id of day i marked.
C1_FullDayAdvancement ==
    (CompletedOk /\ N >= 2 /\ prev.current_day_index < N - 1) =>
        LET i == prev.current_day_index
            outstanding == DayIds(i) \ prev.completed_sets
        IN  /\ outstanding = {last.set_id} =>
                /\ db.current_day_index = i + 1
                /\ db.completed_sets \cap DayIds(i) = {}
            /\ (outstanding # {} /\ outstanding # {last.set_id}) =>
                /\ db.current_day_index = i
                /\ db.completed_sets = prev.completed_sets \cup {last.set_id}

\* a day with two set ids, one marked earlier, was finished and left
C1_Witness ==
    /\ CompletedOk /\ N >= 2 /\ prev.current_day_index < N - 1
    /\ Cardinality(DayIds(prev.current_day_index)) >= 2
    /\ DayIds(prev.current_day_index) \ prev.completed_sets = {last.set_id}
    /\ db.current_day_index = prev.current_day_index + 1

\* C2: rollover. The complete_set that completes the last outstanding set of
\* the last day stores index 0 and leaves no id of day 0 marked, and a
\* complete_set that follows it for any set of day 0 is accepted.
C2_Rollover ==
    [][ /\ ( /\ last'.op = "complete_set" /\ last'.outcome = "ok"
             /\ N >= 1 /\ db.current_day_index = N - 1
             /\ DayIds(N - 1) \ db.completed_sets \subseteq {last'.set_id} )
            => ( /\ db'.current_day_index = 0
                 /\ db'.completed_sets \cap DayIds(0) = {} )
        /\ ( /\ CompletedOk /\ last.message = "rolling_over"
             /\ last'.op = "complete_set"
             /\ last'.set_id \in DayIds(0) )
            => last'.outcome = "ok"
      ]_vars

\* in a new cycle of a plan of several days, a set of day 0 that had been
\* completed in an earlier cycle was accepted again
C2_Witness ==
    /\ CompletedOk /\ N >= 2
    /\ prev.current_day_index = 0
    /\ prev.set_progress[last.set_id].is_complete
    /\ last.set_id \notin prev.completed_sets

\* C3: after a rollover completed_set_ids holds no id of the day that
\* triggered it (for day0 = {A}, day1 = {B}: after A then B, B is not marked).
C3_RolloverClearsFinishedDay ==
    (CompletedOk /\ last.message = "rolling_over") =>
        /\ db.current_day_index = 0
        /\ db.completed_sets \cap DayIds(DayOf(prev.current_day_index)) = {}

\* C4: out-of-day rejection. complete_set for a set id outside the current
\* day's list fails with SetNotInCurrentDay and leaves completed_set_ids,
\* set_progress and current_day_index as they were.
C4_OutOfDayRejection ==
    ( /\ last.op = "complete_set" /\ N >= 1
      /\ last.set_id \notin DayIds(DayOf(prev.current_day_index)) )
    => /\ last.outcome = "SetNotInCurrentDay"
       /\ db.completed_sets = prev.completed_sets
       /\ db.set_progress = prev.set_progress
       /\ db.current_day_index = prev.current_day_index

\* a set of another day of the plan was rejected on an existing record
C4_Witness ==
    /\ last.op = "complete_set" /\ last.outcome = "SetNotInCurrentDay"
    /\ prev.exists
    /\ \E k \in 1..N : last.set_id \in Range(plan[k])

\* C6: idempotent completion. When a successful complete_set left the day
\* incomplete, an immediately repeated complete_set with the same set id
\* succeeds and leaves completed_set_ids and current_day_index as they are.
C6_IdempotentCompletion ==
    [][ ( /\ CompletedOk /\ ~last.day_complete
          /\ last'.op = "complete_set" /\ last'.set_id = last.set_id )
        => ( /\ last'.outcome = "ok"
             /\ db'.completed_sets = db.completed_sets
             /\ db'.current_day_index = db.current_day_index )
      ]_vars

\* a set that was already marked was completed again on a day that stays
\* incomplete
C6_Witness ==
    /\ CompletedOk /\ ~last.day_complete
    /\ last.message = "already_complete"
    /\ last.set_id \in prev.completed_sets
    /\ prev.exists

\* the flags a status view shows, by position
ViewFlags(sets) ==
    [k \in 1..Len(sets) |-> <<sets[k].set_id, sets[k].is_complete>>]

\* the set ids a status view lists, by position
ViewIds(sets) == [k \in 1..Len(sets) |-> sets[k].set_id]

\* the current day of the stored document d has a set and all its ids marked
FullyComplete(d) ==
    /\ N >= 1
    /\ DayIds(DayOf(d.current_day_index)) # {}
    /\ DayIds(DayOf(d.current_day_index)) \subseteq d.completed_sets

\* C7: reconciling reads. get_status on a record whose current day i has at
\* least one set and all its ids marked stores the advancement and returns the
\* view of day (i+1) mod n.
C7_ReconcilingReads ==
    (last.op = "get_status" /\ FullyComplete(prev)) =>
        LET next == (DayOf(prev.current_day_index) + 1) % N
        IN  /\ last.outcome = "ok"
            /\ db.current_day_index = next
            /\ last.current_day_index = next
            /\ ViewIds(last.sets) = plan[next + 1]

\* a get_status found the day fully complete and moved the record on
C7_Witness ==
    /\ last.op = "get_status" /\ last.outcome = "ok"
    /\ FullyComplete(prev) /\ N >= 2
    /\ db.current_day_index # prev.current_day_index

\* C8: post-reconciliation invariant. When get_status returns, the day at the
\* returned and stored current_day_index is not fully complete.
C8_StatusDayNotComplete ==
    (last.op = "get_status" /\ last.outcome = "ok") =>
        /\ last.current_day_index = db.current_day_index
        /\ ~FullyComplete(db)

\* C9: polling. A get_status that directly follows a successful get_status
\* returns the same current_day_index and is_complete flags and leaves the
\* stored current_day_index and completed_set_ids unchanged.
C9_StatusPollStable ==
    [][ ( /\ last.op = "get_status" /\ last.outcome = "ok"
          /\ last'.op = "get_status" )
        => ( /\ last'.current_day_index = last.current_day_index
             /\ ViewFlags(last'.sets) = ViewFlags(last.sets)
             /\ db'.current_day_index = db.current_day_index
             /\ db'.completed_sets = db.completed_sets )
      ]_vars

\* C10: update_set_progress leaves completed_set_ids and current_day_index
\* unchanged, marks nothing complete and never advances, whatever values the
\* request carries; only set_progress entries change.
C10_UpdateFrame ==
    (last.op = "update_set_progress") =>
        /\ db.completed_sets = prev.completed_sets
        /\ db.current_day_index = prev.current_day_index
        /\ \A s \in SetIds :
               /\ db.set_progress[s].is_complete
                      = prev.set_progress[s].is_complete
               /\ s # last.set_id => db.set_progress[s] = prev.set_progress[s]
        /\ last.outcome # "ok" => db = prev

\* an update wrote reps for a set of a record that has marks and is past day 0
C10_Witness ==
    /\ last.op = "update_set_progress" /\ last.outcome = "ok"
    /\ db.set_progress # prev.set_progress
    /\ db.set_progress[last.set_id].completed_reps # None
    /\ prev.exists

\* C22: retry after success. When a complete_set call that advanced the day
\* is repeated with the same set id, the repeated call leaves
\* current_day_index and completed_set_ids as the first call left them.
C22_RetryAfterSuccess ==
    [][ ( /\ CompletedOk
          /\ last.day_complete
          /\ last'.op = "complete_set"
          /\ last'.set_id = last.set_id )
        => /\ db'.current_day_index = db.current_day_index
           /\ db'.completed_sets = db.completed_sets ]_vars

\* the documents d and e hold the same day index and the same marks
SameProgress(d, e) ==
    /\ d.current_day_index = e.current_day_index
    /\ d.completed_sets = e.completed_sets

\* C23: reconciliation and completion advance identically. From a stored
\* state whose current day is fully complete, the record get_status leaves is
\* the one complete_set on any set of that day would leave, and the record
\* such a complete_set leaves is the one get_status would leave, as to
\* current_day_index and completed_set_ids.
C23_SameAdvancement ==
    [][ (db.exists /\ FullyComplete(db) /\ db.current_day_index < N) =>
          /\ last'.op = "get_status" =>
                \A s \in DayIds(db.current_day_index) :
                    SameProgress(db', CompleteSetResult(plan, db, s).doc)
          /\ ( /\ last'.op = "complete_set"
               /\ last'.set_id \in DayIds(db.current_day_index) )
             => SameProgress(db', StatusResult(plan, db).doc) ]_vars

\* get_status rolled a fully complete last day over to day 0
C23_Witness ==
    /\ last.op = "get_status"
    /\ prev.exists
    /\ FullyComplete(prev)
    /\ N >= 2
    /\ prev.current_day_index = N - 1
    /\ db.current_day_index = 0

\* C26: zero-set days are never treated as complete. While the current day
\* has an empty set list, get_status returns its empty view and complete_set
\* fails with SetNotInCurrentDay, and neither changes the index or the marks.
C26_ZeroSetDayStays ==
    ( /\ N >= 1
      /\ DayIds(DayOf(prev.current_day_index)) = {}
      /\ last.op \in {"get_status", "complete_set"} )
    => /\ db.current_day_index = prev.current_day_index
       /\ db.completed_sets = prev.completed_sets
       /\ last.op = "complete_set" => last.outcome = "SetNotInCurrentDay"
       /\ last.op = "get_status" =>
              /\ last.outcome = "ok"
              /\ last.sets = NoSets
              /\ last.current_day_index = DayOf(prev.current_day_index)

\* a complete_set arrived while the record was on a later day without sets
C26_Witness ==
    /\ N >= 1
    /\ prev.current_day_index >= 1
    /\ DayIds(DayOf(prev.current_day_index)) = {}
    /\ last.op = "complete_set"

\* C29: the message of complete_set announces a rollover exactly when the
\* call advanced from the last day to day 0, the next day exactly when it
\* advanced to i+1 < n, and neither when the day is not complete; a returned
\* index 0 with new_day_started tells a rollover as well.
C29_RolloverMessage ==
    CompletedOk =>
        LET i == DayOf(prev.current_day_index)
        IN  /\ last.message = "rolling_over" <=>
                  (last.day_complete /\ i = N - 1 /\ db.current_day_index = 0)
            /\ last.message = "next_day" <=>
                  (last.day_complete /\ i + 1 < N
                   /\ db.current_day_index = i + 1)
            /\ ~last.day_complete =>
                  last.message \in {"marked", "already_complete"}
            /\ last.message = "rolling_over" <=>
                  (last.new_day_started /\ last.current_day_index = 0)

\* the last day of a plan of several days was finished
C29_Witness ==
    /\ CompletedOk
    /\ N >= 2
    /\ last.message = "rolling_over"
    /\ prev.current_day_index = N - 1

\* C24: out-of-range tolerance. With a stored current_day_index >= n on a
\* plan of n >= 1 days, get_status and complete_set answer as they would for
\* a stored index 0: complete_set accepts exactly the set ids of day 0, and
\* after get_status the stored index is below n.
C24_OutOfRangeTolerance ==
    ( /\ N >= 1
      /\ prev.exists
      /\ prev.current_day_index >= N
      /\ last.op \in {"get_status", "complete_set"} )
    => LET asZero == [prev EXCEPT !.current_day_index = 0]
       IN  /\ last.op = "complete_set" =>
                 /\ last.outcome = "ok" <=> last.set_id \in DayIds(0)
                 /\ last.outcome = "SetNotInCurrentDay"
                        <=> last.set_id \notin DayIds(0)
                 /\ last = CompleteSetResult(plan, asZero,
                                             last.set_id).response
                 /\ db.completed_sets =
                        CompleteSetResult(plan, asZero,
                                          last.set_id).doc.completed_sets
           /\ last.op = "get_status" =>
                 /\ last.outcome = "ok"
                 /\ last = StatusResult(plan, asZero).response
                 /\ SameProgress(db, StatusResult(plan, asZero).doc)
                 /\ db.current_day_index < N

\* a set of day 0 was completed on a record whose index was out of range
C24_Witness ==
    /\ N >= 2
    /\ prev.exists
    /\ prev.current_day_index >= N
    /\ CompletedOk
    /\ last.set_id \in DayIds(0)

\* C28: the outcome of complete_set agrees with the stored record.
\* new_day_started is true exactly when day_complete is, and the returned
\* current_day_index is the stored one: (i+1) mod n when the day completed
\* and the unchanged index otherwise, whatever index was stored before.
C28_OutcomeAgreesWithRecord ==
    CompletedOk =>
        /\ last.new_day_started <=> last.day_complete
        /\ last.current_day_index = db.current_day_index
        /\ db.current_day_index =
               IF last.day_complete
               THEN (DayOf(prev.current_day_index) + 1) % N
               ELSE prev.current_day_index

\* C21: retry after partial failure. After a complete_set call that stored
\* the set mark and failed before its advancement write, a repeated
\* complete_set with the same set id, or a get_status, leaves the
\* current_day_index and completed_set_ids that the call would have left
\* without the failure, and the record is off the fully complete day.
C21_RetryAfterPartialFailure ==
    [][ ( /\ last.op = "complete_set"
          /\ last.outcome = "error_500"
          /\ \/ last'.op = "get_status"
             \/ /\ last'.op = "complete_set"
                /\ last'.set_id = last.set_id
                /\ last'.outcome # "error_500" )
        => /\ last'.outcome = "ok"
           /\ SameProgress(db',
                           CompleteSetResult(plan, prev, last.set_id).doc)
           /\ db'.current_day_index =
                  (DayOf(db.current_day_index) + 1) % N ]_vars

\* a complete_set found the first day of a plan of several days fully marked
\* and not yet left, and advanced it
C21_Witness ==
    /\ CompletedOk
    /\ last.day_complete
    /\ N >= 2
    /\ prev.exists
    /\ prev.current_day_index = 0
    /\ FullyComplete(prev)
    /\ db.current_day_index = 1

----------------------------------------------------------------------------
(* Properties of concurrent requests *)

\* C5: two concurrent complete_set calls for the two set ids of a fresh day:
\* when both have returned successfully, exactly one of them advanced the day,
\* the stored index moved once and both completions were taken into account
\* (the ids of the finished day are cleared by the advancement).
C5_ConcurrentCompletion ==
    ( /\ \A r \in Requests : pc[r] = "done" /\ loc[r].outcome = "ok"
      /\ N >= 2
      /\ Cardinality(DayIds(0)) = NumRequests
      /\ {loc[r].set_id : r \in Requests} = DayIds(0) )
    => /\ Cardinality({r \in Requests : loc[r].new_day_started}) = 1
       /\ db.current_day_index = 1
       /\ db.completed_sets \cap DayIds(0) = {}

\* the set ids that belong to some day of the plan
PlanIds == UNION {Range(plan[k]) : k \in 1..N}

\* C11: empty-plan guard. get_status and complete_set on a plan of zero days
\* fail with EmptyPlan and return neither a status view nor a completion
\* outcome.
C11_EmptyPlanGuard ==
    (last.op \in {"get_status", "complete_set"} /\ N = 0) =>
        /\ last.outcome = "EmptyPlan"
        /\ last.sets = NoSets
        /\ last.progress = NoProgress
        /\ ~last.day_complete /\ ~last.new_day_started

\* get_status was called for a workout whose plan is empty
C11_Witness ==
    last.op = "get_status" /\ N = 0 /\ last.outcome = "EmptyPlan"

\* C13: update_set_progress fails with SetNotFound exactly when the set id is
\* in no day of the plan, succeeds for a set id of any day, and leaves
\* set_progress unchanged when it fails.
C13_UpdateSetNotFound ==
    (last.op = "update_set_progress") =>
        /\ last.outcome = "SetNotFound" <=> last.set_id \notin PlanIds
        /\ last.outcome = "ok" <=> last.set_id \in PlanIds
        /\ last.outcome # "ok" => db.set_progress = prev.set_progress

\* an update succeeded for a set of a day that is not the current one
C13_Witness ==
    /\ last.op = "update_set_progress" /\ last.outcome = "ok"
    /\ N >= 2
    /\ last.set_id \notin DayIds(db.current_day_index)
    /\ db.set_progress[last.set_id].present

\* C14: completed_set_ids only ever holds set ids of some day of the plan.
C14_CompletedIdsInPlan == db.completed_sets \subseteq PlanIds

\* marks are stored while another id is not part of the plan
C14_Witness ==
    /\ db.completed_sets # {}
    /\ SetIds \ PlanIds # {}
    /\ last.op = "complete_set" /\ last.set_id \notin PlanIds

\* round() of Python: to the nearest integer, ties to the even one
RoundPercentage(c, t) ==
    LET q == (100 * c) \div t
        r == (100 * c) % t
    IN  IF 2 * r > t THEN q + 1
        ELSE IF 2 * r < t THEN q
        ELSE IF q % 2 = 0 THEN q ELSE q + 1

\* C15: the view's completion_percentage is round(completed / total * 100)
\* when total_sets > 0 (2 of 3 gives 67) and 0 when total_sets = 0.
C15_CompletionPercentage ==
    (last.op = "get_status" /\ last.outcome = "ok") =>
        LET c == last.progress.completed_sets
            t == last.progress.total_sets
        IN  /\ c <= t
            /\ last.progress.completion_percentage =
                   IF t > 0 THEN RoundPercentage(c, t) ELSE 0

HistoryOps == {"get_status", "complete_set", "update_set_progress"}

Advanced ==
    \/ CompletedOk /\ last.day_complete
    \/ last.op = "get_status" /\ last.outcome = "ok" /\ FullyComplete(prev)

\* the ids the last request marked
Marked == IF last.op = "complete_set" THEN {last.set_id} ELSE {}

\* C18: frame of advancement. An advancement removes from completed_set_ids
\* exactly the ids of one day, day i when i+1 < n and the new day 0 on
\* rollover, and keeps every other id.
C18_AdvancementFrame ==
    Advanced =>
        LET i == DayOf(prev.current_day_index)
            cleared == IF i + 1 < N THEN DayIds(i) ELSE DayIds(0)
        IN  db.completed_sets = (prev.completed_sets \cup Marked) \ cleared

\* a day was left for the next one while marks of another day were kept
C18_Witness ==
    /\ Advanced
    /\ DayOf(prev.current_day_index) + 1 < N
    /\ db.completed_sets # {}

\* C19: each day starts unmarked. When an advancement makes day j current
\* and day j had been completed before, none of day j's ids is marked.
C19_DayStartsUnmarked ==
    ( /\ Advanced
      /\ \A s \in DayIds(db.current_day_index) :
             db.set_progress[s].is_complete )
    => db.completed_sets \cap DayIds(db.current_day_index) = {}

----------------------------------------------------------------------------
(* Properties of requests against several pairs *)

\* C12: get_status answers NotFound whenever the user of the request is not
\* in the users collection or the workout it reads is not in the workouts
\* collection, in the active-workout form and in the explicit-workout form;
\* it never returns a status view for an unknown user.
C12_StatusNotFound ==
    (/\ lastp.response.op = "get_status"
     /\ \/ ~users[lastp.user_id].found
        \/ lastp.workout_id \notin WorkoutDocs)
        => lastp.response.outcome = "NotFound"

\* C17: a request for one (user, workout) pair leaves the record of every
\* other pair as it was, whatever the two id strings are.
C17_PairIndependence ==
    [][\A u \in UserIdStrings, w \in WorkoutIdStrings :
           <<u, w>> # <<lastp'.user_id, lastp'.workout_id>>
               => records'[ProgressId(u, w)] = records[ProgressId(u, w)]]_vars

----------------------------------------------------------------------------
(* Properties of requests while a set document is missing *)

\* C30: dangling set references. get_status succeeds when ids of the current
\* day have no set document: its view lists the other ids of the day in
\* order, total_sets counts only those, and the day index still moves only
\* when every id of the day's list, resolvable or not, is marked.
C30_DanglingSetReferences ==
    /\ (last.op = "get_status" /\ N >= 1) =>
          LET InCollection(s) == s \in sets_collection
              listed == SelectSeq(plan[last.current_day_index + 1],
                                  InCollection)
          IN  /\ last.outcome = "ok"
              /\ ViewIds(last.sets) = listed
              /\ last.progress.total_sets = Len(listed)
    /\ (last.op \in {"get_status", "complete_set"}
          /\ db.current_day_index # prev.current_day_index) =>
          DayIds(DayOf(prev.current_day_index))
              \subseteq (prev.completed_sets \cup Marked)

\* a view that leaves out an id of its day and lists another
C30_Witness ==
    /\ last.op = "get_status"
    /\ last.outcome = "ok"
    /\ Len(last.sets) >= 1
    /\ Len(last.sets) < Len(plan[last.current_day_index + 1])

----------------------------------------------------------------------------
(* Properties of the workout client *)

\* the last request advanced the record from the last day to day 0
RolledOver ==
    /\ Advanced
    /\ prev.current_day_index = N - 1
    /\ db.current_day_index = 0

\* C25: progress through the cycle. On a plan in which every day has a set,
\* the client that fetches the status and completes the sets listed as
\* incomplete is never rejected, the stored index only ever moves from i to
\* (i+1) mod n, and the record rolls over to day 0 again and again.
C25_ProgressThroughCycle ==
    /\ [](last.outcome = "ok")
    /\ [][db'.current_day_index # db.current_day_index =>
             db'.current_day_index = (db.current_day_index + 1) % N]_vars
    /\ []<>RolledOver

\* in a later cycle a status fetch itself rolled the record over
C25_Witness ==
    /\ RolledOver
    /\ N >= 2
    /\ last.op = "get_status"
    /\ client.todo # << >>

----------------------------------------------------------------------------
(* Properties of get_status racing complete_set *)

\* both requests of the race have been answered
RaceOver ==
    /\ \E r \in Requests : pc[r] = "gs_done"
    /\ \E q \in Requests : pc[q] = "done"

\* the set id of the completion request of the race
RaceSetId == loc[CHOOSE q \in Requests : pc[q] = "done"].set_id

\* C27: get_status racing complete_set. However the store operations of one
\* get_status and one complete_set on the same record interleave, the record
\* ends with the current_day_index and completed_set_ids of get_status
\* followed by complete_set or of complete_set followed by get_status.
C27_StatusRaceSerializable ==
    RaceOver =>
        LET statusFirst ==
                CompleteSetResult(plan, StatusResult(plan, prev).doc,
                                  RaceSetId).doc
            completeFirst ==
                StatusResult(plan,
                             CompleteSetResult(plan, prev, RaceSetId).doc).doc
        IN  \/ SameProgress(db, statusFirst)
            \/ SameProgress(db, completeFirst)

----------------------------------------------------------------------------
(* Properties of rejected requests *)

\* the outcomes of a request that failed a validation
ValidationFailures ==
    {"NotFound", "EmptyPlan", "SetNotFound", "SetNotInCurrentDay"}

\* C31: validation failures change nothing. A get_status, complete_set or
\* update_set_progress call that fails with NotFound, EmptyPlan, SetNotFound
\* or SetNotInCurrentDay neither creates a progress record nor modifies an
\* existing one: the stored record is the same before and after the call.
C31_ValidationFailuresChangeNothing ==
    last.outcome \in ValidationFailures => db = prev

----------------------------------------------------------------------------
(* Properties of the three operations handled concurrently *)

\* C32: index range invariant. On a plan of n >= 1 days, from the creation of
\* the record on, the stored current_day_index is at least 0 and below n
\* after any sequence and any interleaving of get_status, complete_set and
\* update_set_progress calls.
C32_IndexRange ==
    N >= 1 => (db.current_day_index >= 0 /\ db.current_day_index < N)

\* a get_status and a complete_set handled concurrently both advanced the
\* record off the last day of a plan of several days
C32_Witness ==
    /\ N >= 2
    /\ db.current_day_index = 0
    /\ \E r \in Requests, q \in Requests :
           /\ pc[r] = "gs_done"
           /\ loc[r].new_day_started
           /\ pc[q] = "done"
           /\ loc[q].new_day_started
           /\ loc[q].current_day_index = 0
           /\ loc[q].progress_doc.current_day_index = N - 1

\* the two requests handled concurrently have been answered
MixedOver ==
    \E r \in Requests, q \in Requests :
        /\ r # q
        /\ pc[r] \in {"done", "gs_done", "up_done"}
        /\ pc[q] \in {"done", "gs_done", "up_done"}

\* C33: update_set_progress racing complete_set. When an
\* update_set_progress(X) and a complete_set(Y) handled concurrently on the
\* same record have both succeeded, both effects are stored: Y is in
\* completed_sets or the day advanced, the entry of Y in set_progress carries
\* its completion stamp, and the entry of X holds the reported reps and
\* duration.
C33_UpdateRaceKeepsBoth ==
    \A r \in Requests, q \in Requests :
        ( /\ pc[r] = "up_done"
          /\ loc[r].outcome = "ok"
          /\ pc[q] = "done"
          /\ loc[q].outcome = "ok" )
        => LET X == loc[r].set_id
               Y == loc[q].set_id
           IN  /\ Y \in db.completed_sets \/ loc[q].new_day_started
               /\ db.set_progress[Y].is_complete
               /\ loc[r].completed_reps # None =>
                      db.set_progress[X].completed_reps
                          = loc[r].completed_reps
               /\ loc[r].completed_duration_sec # None =>
                      db.set_progress[X].completed_duration_sec
                          = loc[r].completed_duration_sec

\* C34: concurrent first use. When two operations for a pair that has no
\* record are handled concurrently and both reach get_or_create_progress,
\* the pair has its record afterwards and neither operation failed on the
\* insert of the other.
C34_ConcurrentFirstUse ==
    ( /\ MixedOver
      /\ ~prev.exists
      /\ \A r \in Requests : loc[r].outcome \notin {"SetNotFound"}
      /\ N >= 1 )
    => /\ db.exists
       /\ \A r \in Requests : loc[r].outcome # "error_500"

====
